---- MODULE Spec2Model ----
(***************************************************************************)
(* Model of the transaction categorizer's Python programs:                 *)
(*   trainer/train.py     main, load_training_data, train_model,           *)
(*                        evaluate_model                                   *)
(*   trainer/evaluate.py  main, load_data, prepare_features,               *)
(*                        evaluate_split, print_results                    *)
(*   trainer/predict.py   main (batch path), predict (single path)         *)
(*                                                                         *)
(* A Python str is a sequence of one-character strings.  A JSON field that *)
(* is absent or null is the empty sequence: every read of payee_name,      *)
(* imported_payee and notes in the code is `tx.get(k) or ''`, which maps   *)
(* None and '' to the same value.  The optional `index` and `category`     *)
(* are <<>> / "" when absent.                                              *)
(***************************************************************************)
EXTENDS Integers, Sequences, FiniteSets, TLC

VARIABLES
    prog,           \* which entry point this process runs
    pc,             \* position of the process in its main()
    dataExists,     \* training_data.json exists
    corpus,         \* data['transactions'] of training_data.json
    modelFile,      \* model.joblib: NoFile or the dumped pipeline
    categoriesFile, \* categories.json: NoFile or the dumped category map
    stdin,          \* the batch request's 'transactions' (predict.main)
    texts, labels,  \* train.main locals
    category_map,   \* the category map a process holds (NoMap before it is built/loaded)
    pipeline,       \* the classifier a process holds (NoPipeline before fit/load)
    memo,           \* the fitted classifier's answers given so far (text -> <<label, confidence>>)
    calls,          \* the texts handed to pipeline.predict / predict_proba, in call order
    loads,          \* how many times this process loaded each artifact
    transactions,   \* evaluate.main / predict.main local
    even_txs, odd_txs,  \* evaluate.main locals
    cycle,          \* evaluate.main: 0 before the first evaluate_split, then 1, 2
    fitted,         \* evaluate_split: the (text, label) pairs the current cycle fitted on
    results,        \* evaluate_split's result of the current cycle / predict.main's result list
    shown,          \* print_results: sorted_failures of the current cycle
    pos,            \* predict.main: 1-based position of the loop over transactions
    ncalls,         \* number of predict() calls a library client has made
    lastCall,       \* the last predict() call: its arguments and what it returned
    stdout,         \* what the process printed, as records
    exitCode        \* -1 while running, else the exit status

vars == <<prog, pc, dataExists, corpus, modelFile, categoriesFile, stdin, texts, labels,
          category_map, pipeline, memo, calls, loads, transactions, even_txs, odd_txs,
          cycle, fitted, results, shown, pos, ncalls, lastCall, stdout, exitCode>>

----------------------------------------------------------------------------
(* Bounds of the model *)

\* longest period of a corpus: the corpus is a short arbitrary pattern of transactions repeated
MaxPat == 3
\* most repetitions of the pattern
MaxReps == 11
\* longest batch request
MaxBatch == 2
\* most predict() calls of a library client
MaxCalls == 2

(* Program constants *)

\* train.py:97  `if len(texts) < 10`
MinTrain == 10
\* evaluate.py:209  `if len(transactions) < 20`
MinEvaluate == 20
\* train.py:78  `cv=min(5, len(set(labels)))`
MaxFolds == 5
\* evaluate.py:172  `[:15]`
MaxShown == 15

----------------------------------------------------------------------------
(* Python str operations *)

S_expense == <<"e","x","p","e","n","s","e">>
S_income  == <<"i","n","c","o","m","e">>
S_Unknown == <<"U","n","k","n","o","w","n">>
\* the annotation marker '[AI:'
Marker == <<"[","A","I",":">>

Min(a, b) == IF a < b THEN a ELSE b

Range(s) == {s[i] : i \in 1..Len(s)}

isspace(c) == c = " "

\* str.strip(): drops leading and trailing whitespace
RECURSIVE lstrip(_)
lstrip(s) == IF s # <<>> /\ isspace(Head(s)) THEN lstrip(Tail(s)) ELSE s

RECURSIVE rstrip(_)
rstrip(s) == IF s # <<>> /\ isspace(s[Len(s)]) THEN rstrip(SubSeq(s, 1, Len(s) - 1)) ELSE s

strip(s) == rstrip(lstrip(s))

lower_char(c) ==
    CASE c = "A" -> "a" [] c = "B" -> "b" [] c = "I" -> "i" [] c = "T" -> "t"
      [] OTHER -> c

\* str.lower()
lower(s) == [i \in 1..Len(s) |-> lower_char(s[i])]

occurs_at(s, i, m) == i + Len(m) - 1 <= Len(s) /\ SubSeq(s, i, i + Len(m) - 1) = m

\* `m in s`
contains(s, m) == \E i \in 1..Len(s) : occurs_at(s, i, m)

\* s.split(m)[0]: the part of s before the first occurrence of m (all of s when there is none)
split_head(s, m) ==
    IF contains(s, m)
    THEN LET first == CHOOSE i \in 1..Len(s) :
                          occurs_at(s, i, m) /\ \A j \in 1..(i - 1) : ~occurs_at(s, j, m)
         IN SubSeq(s, 1, first - 1)
    ELSE s

\* `a or b`
or_else(a, b) == IF a # <<>> THEN a ELSE b

\* f"{payee} {notes} {amount_type}".strip().lower()
feature_text(payee, notes, amount_type) ==
    lower(strip(payee \o <<" ">> \o notes \o <<" ">> \o amount_type))

amount_type_of(amount) == IF amount < 0 THEN S_expense ELSE S_income

\* clean_notes without the cleaning: the notes are used as given
clean_notes_as_given(notes) == notes

\* notes as cleaned by the three places that clean them
clean_notes(notes) == IF contains(notes, Marker) THEN strip(split_head(notes, Marker)) ELSE notes

----------------------------------------------------------------------------
(* The feature encoders, one per place in the code *)

\* train.py, inside load_training_data
train_features(tx) ==
    LET payee == or_else(tx.payee_name, or_else(tx.imported_payee, <<>>))
        notes == or_else(tx.notes, <<>>)
    IN feature_text(payee, clean_notes(notes), amount_type_of(tx.amount))

\* evaluate.py
prepare_features(tx) ==
    LET payee == or_else(tx.payee_name, or_else(tx.imported_payee, <<>>))
        notes == or_else(tx.notes, <<>>)
    IN feature_text(payee, clean_notes(notes), amount_type_of(tx.amount))

\* predict.py, inside main's loop
batch_features(tx) ==
    LET payee == or_else(tx.payee_name, or_else(tx.imported_payee, <<>>))
        notes == or_else(tx.notes, <<>>)
    IN feature_text(payee, clean_notes(notes), amount_type_of(tx.amount))

\* predict.py, inside predict(): the notes are used as given
predict_text(payee, notes, amount) == feature_text(payee, notes, amount_type_of(amount))

----------------------------------------------------------------------------
(* Inputs *)

S_Bar == <<"B","a","r">>
S_Imp == <<"I","m","p">>
S_Tea == <<"T","e","a">>
S_TeaAI == <<"T","e","a"," ","[","A","I",":","9","]">>
\* notes that start with the marker, and notes with two markers
S_AITea == <<"[","A","I",":","9","]"," ","T","e","a">>
S_TeaAIAI == <<"T","e","a"," ","[","A","I",":","9","]"," ","x","[","A","I",":","8","]">>

Tx(pn, ip, nt, am, cat, idx) ==
    [payee_name |-> pn, imported_payee |-> ip, notes |-> nt, amount |-> am,
     category |-> cat, index |-> idx]

\* data['categories']
Categories == <<[id |-> "c1", name |-> "Food"], [id |-> "c2", name |-> "Rent"]>>

\* the transactions a corpus is made of: nothing but the sign (category c1); a fallback payee
\* with annotated notes (c2); the same payee and notes under a category id the category table
\* lacks; an uncategorized transaction
CorpusTx ==
    { Tx(<<>>, <<>>, <<>>, 0, "c1", <<>>),
      Tx(<<>>, S_Imp, S_TeaAI, 7, "c2", <<>>),
      Tx(S_Imp, <<>>, S_Tea, 7, "ghost", <<>>),
      Tx(S_Bar, <<>>, <<>>, -5, "", <<>>) }

Patterns == UNION {[1..k -> CorpusTx] : k \in 1..MaxPat}

\* pat repeated reps times
Repeat(pat, reps) == [i \in 1..(Len(pat) * reps) |-> pat[((i - 1) % Len(pat)) + 1]]

Corpora == {Repeat(pat, reps) : pat \in Patterns, reps \in 0..MaxReps}

\* the transactions of a batch request
BatchTx ==
    { Tx(S_Bar, <<>>, <<>>, -5, "", <<7>>),
      Tx(<<>>, <<>>, <<>>, 0, "", <<3>>),
      Tx(<<>>, <<>>, <<>>, -5, "", <<>>),
      Tx(<<>>, S_Imp, S_TeaAI, 7, "", <<5>>),
      Tx(S_Bar, S_Imp, S_Tea, 0, "", <<3>>),
      Tx(S_Bar, <<>>, S_AITea, -5, "", <<8>>),
      Tx(<<>>, S_Imp, S_TeaAIAI, 7, "", <<9>>) }

Batches == UNION {[1..k -> BatchTx] : k \in 0..MaxBatch}

NoFile == [exists |-> FALSE]
NoMap == [loaded |-> FALSE]
NoPipeline == [classes |-> {}]
NoResults == <<>>

\* Python's None, as a category id or name
None == "<None>"

\* {cat['id']: cat['name'] for cat in data['categories']}: a later entry of an id wins
build_category_map(cats) ==
    [loaded |-> TRUE,
     names |-> [id \in {cats[k].id : k \in 1..Len(cats)} |->
                  LET last == CHOOSE k \in 1..Len(cats) :
                                  cats[k].id = id /\ \A j \in (k + 1)..Len(cats) : cats[j].id # id
                  IN cats[last].name]]

NoCall == [result |-> None]

\* `cat in category_map`
in_map(cat, cmap) == cat \in DOMAIN cmap.names

\* category_map.get(cat, default)
map_get(cmap, cat, default) == IF in_map(cat, cmap) THEN cmap.names[cat] ELSE default

----------------------------------------------------------------------------
(* train.py *)

\* train_features on the transactions of a corpus, computed once
encoded == [tx \in CorpusTx |-> train_features(tx)]

RECURSIVE load_training_pairs(_, _)
load_training_pairs(txs, cmap) ==
    IF txs = <<>> THEN <<>>
    ELSE LET tx == Head(txs)
             rest == load_training_pairs(Tail(txs), cmap)
             text == encoded[tx]
         IN IF tx.category = "" THEN rest
            ELSE IF text # <<>> /\ in_map(tx.category, cmap)
                 THEN <<[text |-> text, label |-> tx.category]>> \o rest
                 ELSE rest

\* (texts, labels, category_map)
load_training_data(txs) ==
    LET cmap == build_category_map(Categories)
        pairs == load_training_pairs(txs, cmap)
    IN [texts |-> [i \in 1..Len(pairs) |-> pairs[i].text],
        labels |-> [i \in 1..Len(pairs) |-> pairs[i].label],
        category_map |-> cmap]

\* Pipeline.fit: the fitted classifier knows the labels it was fitted on
fit(ts, ls) == [classes |-> Range(ls)]

train_model(ts, ls) == fit(ts, ls)

count_of(ls, c) == Cardinality({i \in 1..Len(ls) : ls[i] = c})

\* cross_val_score(pipeline, texts, labels, cv=min(5, len(set(labels)))): scikit-learn's
\* (Stratified)KFold rejects fewer than 2 splits, and more splits than every class has members
cross_val_raises(ls) ==
    LET k == Min(MaxFolds, Cardinality(Range(ls)))
    IN k < 2 \/ \A c \in Range(ls) : count_of(ls, c) < k

Msg(kind, n) == [kind |-> kind, n |-> n]

\* sys.exit(code) after printing msgs
Exit(msgs, code) ==
    /\ stdout' = stdout \o msgs
    /\ exitCode' = code
    /\ pc' = "exited"

inputVars == <<prog, dataExists, corpus, stdin>>
fileVars == <<modelFile, categoriesFile>>
trainVars == <<texts, labels>>
clfVars == <<memo, calls, loads>>
evalVars == <<even_txs, odd_txs, cycle, fitted, shown>>
apiVars == <<ncalls, lastCall>>

\* main, lines 89-92
TrainCheckData ==
    /\ prog = "train" /\ pc = "start"
    /\ IF ~dataExists
       THEN Exit(<<Msg("data_not_found", 0)>>, 1)
       ELSE pc' = "load" /\ UNCHANGED <<stdout, exitCode>>
    /\ UNCHANGED <<inputVars, fileVars, trainVars, category_map, pipeline, clfVars,
                   transactions, evalVars, results, pos, apiVars>>

\* main, lines 94-103
TrainLoad ==
    /\ prog = "train" /\ pc = "load"
    /\ LET d == load_training_data(corpus) IN
         /\ texts' = d.texts
         /\ labels' = d.labels
         /\ category_map' = d.category_map
         /\ IF Len(d.texts) < MinTrain
            THEN Exit(<<Msg("not_enough_training_data", Len(d.texts))>>, 1)
            ELSE /\ stdout' = stdout \o <<Msg("found_categorized", Len(d.texts)),
                                          Msg("categories", Cardinality(Range(d.labels)))>>
                 /\ pc' = "fit"
                 /\ UNCHANGED exitCode
    /\ UNCHANGED <<inputVars, fileVars, pipeline, clfVars, transactions, evalVars, results,
                   pos, apiVars>>

\* main, lines 105-106
TrainFit ==
    /\ prog = "train" /\ pc = "fit"
    /\ pipeline' = train_model(texts, labels)
    /\ pc' = "evaluate"
    /\ UNCHANGED <<inputVars, fileVars, trainVars, category_map, clfVars, transactions,
                   evalVars, results, pos, apiVars, stdout, exitCode>>

\* main, lines 108-110: an exception of cross_val_score ends the process with a traceback
TrainEvaluate ==
    /\ prog = "train" /\ pc = "evaluate"
    /\ IF cross_val_raises(labels)
       THEN Exit(<<Msg("traceback", 0)>>, 1)
       ELSE /\ stdout' = stdout \o <<Msg("cv_accuracy", 0)>>
            /\ pc' = "save"
            /\ UNCHANGED exitCode
    /\ UNCHANGED <<inputVars, fileVars, trainVars, category_map, pipeline, clfVars,
                   transactions, evalVars, results, pos, apiVars>>

\* joblib.dump / json.dump of an object: the file holds it
dump(obj) == [exists |-> TRUE, content |-> obj]

\* main, lines 112-113
TrainSaveModel ==
    /\ prog = "train" /\ pc = "save"
    /\ modelFile' = dump(pipeline)
    /\ stdout' = stdout \o <<Msg("saving_model", 0)>>
    /\ pc' = "save_categories"
    /\ UNCHANGED <<inputVars, categoriesFile, trainVars, category_map, pipeline, clfVars,
                   transactions, evalVars, results, pos, apiVars, exitCode>>

\* main, lines 115-122; falling off main ends the process with status 0
TrainSaveCategories ==
    /\ prog = "train" /\ pc = "save_categories"
    /\ categoriesFile' = dump(category_map)
    /\ Exit(<<Msg("training_complete", 0)>>, 0)
    /\ UNCHANGED <<inputVars, modelFile, trainVars, category_map, pipeline, clfVars,
                   transactions, evalVars, results, pos, apiVars>>

----------------------------------------------------------------------------
(* The fitted classifier: pipeline.predict / predict_proba.  What a fitted model answers for a
   text is fixed by the fit and unknown here: any label it was fitted on, with a confidence
   (the largest class probability, in percent) that is 100 when it knows one label only.  memo
   keeps the answers given, so the same text always gets the same answer. *)

conf_levels(p) == IF Cardinality(p.classes) = 1 THEN {100} ELSE {60, 90}

Answers(p) == [label : p.classes, confidence : conf_levels(p)]

----------------------------------------------------------------------------
(* evaluate.py *)

is_categorized(tx) == tx.category # ""

\* (categorized, category_map)
load_data(txs) ==
    [transactions |-> SelectSeq(txs, is_categorized),
     category_map |-> build_category_map(Categories)]

\* [tx for i, tx in enumerate(transactions) if i % 2 == 0], i counting from 0
even_indexed(s) == [k \in 1..((Len(s) + 1) \div 2) |-> s[2 * k - 1]]

\* [tx for i, tx in enumerate(transactions) if i % 2 == 1]
odd_indexed(s) == [k \in 1..(Len(s) \div 2) |-> s[2 * k]]

is_failure(r) == r.expected # r.predicted

\* prepare_features on the transactions of a corpus, computed once
prepared == [tx \in CorpusTx |-> prepare_features(tx)]

\* evaluate_split, given the answers f of the pipeline fitted on train_txs for the test texts
evaluate_split(train_txs, test_txs, f) ==
    LET test_texts == [k \in 1..Len(test_txs) |-> prepared[test_txs[k]]]
        test_labels == [k \in 1..Len(test_txs) |-> test_txs[k].category]
        predictions == [k \in 1..Len(test_txs) |-> f[test_texts[k]].label]
        confidences == [k \in 1..Len(test_txs) |-> f[test_texts[k]].confidence]
        correct_mask == [k \in 1..Len(test_txs) |-> test_labels[k] = predictions[k]]
        right == Cardinality({k \in 1..Len(test_txs) : correct_mask[k]})
        rows == [k \in 1..Len(test_txs) |->
                   [payee |-> or_else(test_txs[k].payee_name,
                                      or_else(test_txs[k].imported_payee, S_Unknown)),
                    notes |-> or_else(test_txs[k].notes, <<>>),
                    amount |-> test_txs[k].amount,
                    expected |-> test_labels[k],
                    predicted |-> predictions[k],
                    confidence |-> confidences[k]]]
    IN [total_test |-> Len(test_labels),
        correct |-> right,
        wrong |-> Len(test_labels) - right,
        category_accuracy |->
            [c \in Range(test_labels) |->
               <<Cardinality({k \in 1..Len(test_txs) : test_labels[k] = c /\ correct_mask[k]}),
                 Cardinality({k \in 1..Len(test_txs) : test_labels[k] = c})>>],
        predictions |-> predictions,
        test_labels |-> test_labels,
        confidences |-> confidences,
        failures |-> SelectSeq(rows, is_failure)]

\* the pairs evaluate_split fits its fresh pipeline on
train_pairs(train_txs) ==
    [k \in 1..Len(train_txs) |->
       [text |-> prepared[train_txs[k]], label |-> train_txs[k].category]]

\* insert_by_confidence ordering by confidence ascending
insert_by_confidence_ascending(s, x) ==
    LET ahead == Cardinality({k \in 1..Len(s) : s[k].confidence <= x.confidence})
    IN SubSeq(s, 1, ahead) \o <<x>> \o SubSeq(s, ahead + 1, Len(s))

\* where x goes in s, already ordered by confidence descending, behind its equals
insert_by_confidence(s, x) ==
    LET ahead == Cardinality({k \in 1..Len(s) : s[k].confidence >= x.confidence})
    IN SubSeq(s, 1, ahead) \o <<x>> \o SubSeq(s, ahead + 1, Len(s))

\* sorted(failures, key=lambda x: -x['confidence']): Python's sort is stable
RECURSIVE sorted_by_confidence(_)
sorted_by_confidence(s) ==
    IF s = <<>> THEN <<>>
    ELSE insert_by_confidence(sorted_by_confidence(SubSeq(s, 1, Len(s) - 1)), s[Len(s)])

\* print_results: sorted_failures
sorted_failures(failures) ==
    LET sorted == sorted_by_confidence(failures)
    IN SubSeq(sorted, 1, Min(MaxShown, Len(sorted)))

\* main, lines 201-204
EvalCheckData ==
    /\ prog = "evaluate" /\ pc = "start"
    /\ IF ~dataExists
       THEN Exit(<<Msg("data_not_found", 0)>>, 1)
       ELSE pc' = "load" /\ UNCHANGED <<stdout, exitCode>>
    /\ UNCHANGED <<inputVars, fileVars, trainVars, category_map, pipeline, clfVars,
                   transactions, evalVars, results, pos, apiVars>>

\* main, lines 206-231
EvalLoad ==
    /\ prog = "evaluate" /\ pc = "load"
    /\ LET d == load_data(corpus)
           unknown_cats == {d.transactions[k].category : k \in
                              {j \in 1..Len(d.transactions) :
                                 ~in_map(d.transactions[j].category, d.category_map)}}
       IN
         /\ transactions' = d.transactions
         /\ category_map' = d.category_map
         /\ IF Len(d.transactions) < MinEvaluate
            THEN /\ Exit(<<Msg("not_enough_categorized", Len(d.transactions))>>, 1)
                 /\ UNCHANGED <<even_txs, odd_txs>>
            ELSE /\ even_txs' = even_indexed(d.transactions)
                 /\ odd_txs' = odd_indexed(d.transactions)
                 /\ stdout' = stdout
                       \o <<Msg("found_categorized", Len(d.transactions)),
                            Msg("categories",
                                Cardinality({d.transactions[k].category :
                                               k \in 1..Len(d.transactions)}))>>
                       \o (IF unknown_cats # {}
                           THEN <<Msg("category_ids_not_in_list", Cardinality(unknown_cats))>>
                           ELSE <<>>)
                       \o <<Msg("even_indices", Len(even_indexed(d.transactions))),
                            Msg("odd_indices", Len(odd_indexed(d.transactions)))>>
                 /\ pc' = "cycle"
                 /\ UNCHANGED exitCode
    /\ UNCHANGED <<inputVars, fileVars, trainVars, pipeline, clfVars, cycle, fitted, shown,
                   results, pos, apiVars>>

\* main, lines 233-243: evaluate_split on a fresh pipeline, then print_results; the first
\* cycle trains on the even subset and tests on the odd one, the second the other way round
EvalCycle ==
    /\ prog = "evaluate" /\ pc = "cycle"
    /\ LET train_txs == IF cycle = 0 THEN even_txs ELSE odd_txs
           test_txs == IF cycle = 0 THEN odd_txs ELSE even_txs
           pairs == train_pairs(train_txs)
           p == fit([k \in 1..Len(pairs) |-> pairs[k].text],
                    [k \in 1..Len(pairs) |-> pairs[k].label])
           test_texts == [k \in 1..Len(test_txs) |-> prepared[test_txs[k]]]
       IN \E f \in [Range(test_texts) -> Answers(p)] :
            \E r \in {evaluate_split(train_txs, test_txs, f)} :
              /\ pipeline' = p
              /\ fitted' = pairs
              /\ memo' = f
              /\ calls' = test_texts
              /\ results' = r
              /\ shown' = sorted_failures(r.failures)
              /\ stdout' = stdout \o <<Msg("split_results", cycle + 1)>>
    /\ cycle' = cycle + 1
    /\ pc' = "printed"
    /\ UNCHANGED <<inputVars, fileVars, trainVars, category_map, loads, transactions,
                   even_txs, odd_txs, pos, apiVars, exitCode>>

\* main, lines 239-240: on to the second cycle; the variables of the current cycle start
\* afresh
EvalNextCycle ==
    /\ prog = "evaluate" /\ pc = "printed" /\ cycle = 1
    /\ pipeline' = NoPipeline
    /\ fitted' = <<>>
    /\ memo' = <<>>
    /\ calls' = <<>>
    /\ results' = NoResults
    /\ shown' = <<>>
    /\ stdout' = stdout \o <<Msg("training_on_odd", 0)>>
    /\ pc' = "cycle"
    /\ UNCHANGED <<inputVars, fileVars, trainVars, category_map, loads, transactions,
                   even_txs, odd_txs, cycle, pos, apiVars, exitCode>>

\* main, lines 245-265: the combined accuracy and the recommendation are printed (their
\* values are not modelled)
EvalSummary ==
    /\ prog = "evaluate" /\ pc = "printed" /\ cycle = 2
    /\ Exit(<<Msg("combined_results", 0)>>, 0)
    /\ UNCHANGED <<inputVars, fileVars, trainVars, category_map, pipeline, clfVars,
                   transactions, evalVars, results, pos, apiVars>>

----------------------------------------------------------------------------
(* predict.py *)

\* joblib.load / json.load of a dumped file
load(file) == file.content

\* tx.get('index', 0)
get_index(tx) == IF tx.index = <<>> THEN 0 ELSE tx.index[1]

\* main, lines 74-80: whether the loop body asks the classifier about this text
batch_invokes(text) == text # <<>>

\* main, lines 82-87: the record appended for tx, a the classifier's answer when it was asked
batch_record(tx, category_id, confidence, cmap) ==
    [index |-> get_index(tx),
     category_id |-> category_id,
     category_name |-> IF category_id # None THEN map_get(cmap, category_id, None) ELSE None,
     confidence |-> confidence]

\* append_result putting the record in front
append_result_prepend(rs, record) == <<record>> \o rs

\* results.append(record)
append_result(rs, record) == Append(rs, record)

\* PredictCheckModel without the sys.exit(1): the error is printed and main goes on
PredictCheckModel_NoExit ==
    /\ prog = "predict" /\ pc = "start"
    /\ stdout' = IF ~modelFile.exists
                 THEN stdout \o <<Msg("error_model_not_found", 0)>>
                 ELSE stdout
    /\ pc' = "load"
    /\ UNCHANGED <<inputVars, fileVars, trainVars, category_map, pipeline, clfVars,
                   transactions, evalVars, results, pos, apiVars, exitCode>>

\* main, lines 48-50
PredictCheckModel ==
    /\ prog = "predict" /\ pc = "start"
    /\ IF ~modelFile.exists
       THEN Exit(<<Msg("error_model_not_found", 0)>>, 1)
       ELSE pc' = "load" /\ UNCHANGED <<stdout, exitCode>>
    /\ UNCHANGED <<inputVars, fileVars, trainVars, category_map, pipeline, clfVars,
                   transactions, evalVars, results, pos, apiVars>>

\* PredictLoad loading the model only: the category map is not loaded up front
PredictLoad_ModelOnly ==
    /\ prog = "predict" /\ pc = "load"
    /\ pipeline' = load(modelFile)
    /\ loads' = [loads EXCEPT !.model = @ + 1]
    /\ pc' = "read"
    /\ UNCHANGED <<inputVars, fileVars, trainVars, category_map, memo, calls, transactions,
                   evalVars, results, pos, apiVars, stdout, exitCode>>

\* main, lines 52-55
PredictLoad ==
    /\ prog = "predict" /\ pc = "load"
    /\ pipeline' = load(modelFile)
    /\ category_map' = load(categoriesFile)
    /\ loads' = [model |-> loads.model + 1, categories |-> loads.categories + 1]
    /\ pc' = "read"
    /\ UNCHANGED <<inputVars, fileVars, trainVars, memo, calls, transactions, evalVars,
                   results, pos, apiVars, stdout, exitCode>>

\* main, lines 57-61
PredictRead ==
    /\ prog = "predict" /\ pc = "read"
    /\ transactions' = stdin
    /\ results' = <<>>
    /\ pos' = 1
    /\ pc' = "loop"
    /\ UNCHANGED <<inputVars, fileVars, trainVars, category_map, pipeline, clfVars,
                   evalVars, apiVars, stdout, exitCode>>

\* main, lines 62-87: one iteration of `for tx in transactions`
PredictStep ==
    /\ prog = "predict" /\ pc = "loop" /\ pos <= Len(transactions)
    /\ LET tx == transactions[pos]
           text == batch_features(tx)
       IN IF batch_invokes(text)
          THEN /\ calls' = Append(calls, text)
               /\ \E a \in Answers(pipeline) :
                    /\ text \in DOMAIN memo => a = memo[text]
                    /\ memo' = IF text \in DOMAIN memo THEN memo ELSE memo @@ (text :> a)
                    /\ results' = append_result(results,
                                      batch_record(tx, a.label, a.confidence, category_map))
          ELSE /\ results' = append_result(results, batch_record(tx, None, 0, category_map))
               /\ UNCHANGED <<memo, calls>>
    /\ pos' = pos + 1
    /\ UNCHANGED <<inputVars, fileVars, trainVars, category_map, pipeline, loads,
                   transactions, evalVars, apiVars, pc, stdout, exitCode>>

\* main, line 89
PredictPrint ==
    /\ prog = "predict" /\ pc = "loop" /\ pos > Len(transactions)
    /\ Exit(<<Msg("results", Len(results))>>, 0)
    /\ UNCHANGED <<inputVars, fileVars, trainVars, category_map, pipeline, clfVars,
                   transactions, evalVars, results, pos, apiVars>>

\* the arguments (payee, notes, amount) of a predict() call
PredictArgs ==
    { <<S_Bar, <<>>, -5>>, <<<<>>, <<>>, 0>>, <<S_Imp, S_Tea, 7>>, <<S_Imp, S_TeaAI, 7>> }

\* predict(payee, notes, amount, model_path, categories_path), called by a process that
\* imports the module; load() of a missing model raises and ends the process
ApiPredict ==
    /\ prog = "api" /\ pc = "start" /\ ncalls < MaxCalls
    /\ ncalls' = ncalls + 1
    /\ IF ~modelFile.exists
       THEN /\ Exit(<<Msg("traceback", 0)>>, 1)
            /\ UNCHANGED <<pipeline, category_map, memo, calls, loads, lastCall>>
       ELSE /\ pipeline' = load(modelFile)
            /\ category_map' = load(categoriesFile)
            /\ loads' = [model |-> loads.model + 1, categories |-> loads.categories + 1]
            /\ \E args \in PredictArgs :
                 LET payee == args[1]
                     notes == args[2]
                     amount == args[3]
                     text == predict_text(payee, notes, amount)
                 IN
                   /\ calls' = Append(calls, text)
                   /\ \E a \in Answers(load(modelFile)) :
                        /\ text \in DOMAIN memo => a = memo[text]
                        /\ memo' = IF text \in DOMAIN memo THEN memo ELSE memo @@ (text :> a)
                        /\ lastCall' =
                             [payee |-> payee, notes |-> notes, amount |-> amount,
                              result |->
                                  [category_id |-> a.label,
                                   category_name |->
                                       map_get(load(categoriesFile), a.label, "Unknown"),
                                   confidence |-> a.confidence]]
            /\ UNCHANGED <<pc, stdout, exitCode>>
    /\ UNCHANGED <<inputVars, fileVars, trainVars, transactions, evalVars, results, pos>>

\* the importing process ends
ApiExit ==
    /\ prog = "api" /\ pc = "start"
    /\ Exit(<<>>, 0)
    /\ UNCHANGED <<inputVars, fileVars, trainVars, category_map, pipeline, clfVars,
                   transactions, evalVars, results, pos, apiVars>>

----------------------------------------------------------------------------
(* The artifacts a Trainer run leaves: a pipeline fitted on labels of the category map (at
   least two, see cross_val_raises) and that map *)

TrainedModel == dump([classes |-> {"c1", "c2"}])
TrainedCategories == dump(build_category_map(Categories))

Init ==
    /\ prog \in {"train", "evaluate", "predict", "api"}
    /\ pc = "start"
    /\ dataExists \in BOOLEAN
    /\ corpus \in Corpora
    /\ prog \in {"predict", "api"} => dataExists /\ corpus = <<>>
    /\ ~dataExists => corpus = <<>>
    /\ \/ modelFile = NoFile /\ categoriesFile = NoFile
       \/ prog \in {"predict", "api"}
            /\ modelFile = TrainedModel /\ categoriesFile = TrainedCategories
    /\ stdin \in Batches
    /\ prog # "predict" => stdin = <<>>
    /\ texts = <<>> /\ labels = <<>>
    /\ category_map = NoMap
    /\ pipeline = NoPipeline
    /\ memo = <<>>
    /\ calls = <<>>
    /\ loads = [model |-> 0, categories |-> 0]
    /\ transactions = <<>>
    /\ even_txs = <<>> /\ odd_txs = <<>>
    /\ cycle = 0
    /\ fitted = <<>>
    /\ results = NoResults
    /\ shown = <<>>
    /\ pos = 0
    /\ ncalls = 0
    /\ lastCall = NoCall
    /\ stdout = <<>>
    /\ exitCode = -1

Next ==
    \/ TrainCheckData
    \/ TrainLoad
    \/ TrainFit
    \/ TrainEvaluate
    \/ TrainSaveModel
    \/ TrainSaveCategories
    \/ EvalCheckData
    \/ EvalLoad
    \/ EvalCycle
    \/ EvalNextCycle
    \/ EvalSummary
    \/ PredictCheckModel
    \/ PredictLoad
    \/ PredictRead
    \/ PredictStep
    \/ PredictPrint
    \/ ApiPredict
    \/ ApiExit

Spec == Init /\ [][Next]_vars

----------------------------------------------------------------------------
(* Properties *)

\* a[1], b[1], a[2], b[2], ...: the sequence whose even-indexed part (counting from 0) is a
\* and whose odd-indexed part is b
Interleave(a, b) ==
    [k \in 1..(Len(a) + Len(b)) |-> IF k % 2 = 1 THEN a[(k + 1) \div 2] ELSE b[k \div 2]]

\* the (text, label) pairs the Trainer selects from the corpus
TrainerPairs ==
    LET d == load_training_data(corpus)
    IN [k \in 1..Len(d.texts) |-> [text |-> d.texts[k], label |-> d.labels[k]]]

\* the (text, label) pairs the current evaluation cycle scores
ScoredPairs == [k \in 1..Len(calls) |-> [text |-> calls[k], label |-> results.test_labels[k]]]

\* the pairs the current evaluation cycle uses, in corpus order
EvaluatorPairs ==
    IF cycle = 1 THEN Interleave(fitted, ScoredPairs) ELSE Interleave(ScoredPairs, fitted)

EvaluatorRanCycle == prog = "evaluate" /\ pc = "printed"

\* C1: whenever the Evaluator has run a cycle, the examples it fitted on and scored are
\* exactly the examples the Trainer selects from the same corpus, and none of them has a
\* category id that the category map lacks.
C1_SameSelection ==
    EvaluatorRanCycle =>
        /\ EvaluatorPairs = TrainerPairs
        /\ \A k \in 1..Len(EvaluatorPairs) : in_map(EvaluatorPairs[k].label, category_map)

IsEmptyInput(tx) == tx.payee_name = <<>> /\ tx.imported_payee = <<>> /\ tx.notes = <<>>

\* C2: in the batch path every transaction with no payee and no notes gets a record with a
\* null category id, a null category name and confidence 0, and the classifier is asked only
\* about the other transactions.
C2_EmptyInputSkipsClassifier ==
    (prog = "predict" /\ pc \in {"loop", "exited"} /\ modelFile.exists) =>
        /\ \A k \in 1..Len(results) :
             IsEmptyInput(transactions[k]) =>
                 /\ results[k].category_id = None
                 /\ results[k].category_name = None
                 /\ results[k].confidence = 0
        /\ Len(calls) = Cardinality({k \in 1..Len(results) : ~IsEmptyInput(transactions[k])})

\* the categorized transactions of the corpus whose category id the category table lacks
UnknownCategoryTxs ==
    {k \in 1..Len(corpus) :
       corpus[k].category # "" /\ corpus[k].category \notin {Categories[j].id : j \in 1..Len(Categories)}}

\* C3: once the Trainer has loaded a corpus that holds transactions of an unknown category,
\* none of them is among the training pairs, the run has reported how many there were, and it
\* has not stopped because of them.
C3_UnknownCategoryTallied ==
    (prog = "train" /\ pc \notin {"start", "load"} /\ dataExists /\ UnknownCategoryTxs # {}) =>
        /\ \A k \in 1..Len(labels) : in_map(labels[k], category_map)
        /\ \E m \in Range(stdout) :
             m.kind = "category_ids_not_in_list" /\ m.n = Cardinality(UnknownCategoryTxs)

\* C4: a finished Trainer run with fewer than 10 usable pairs has reported that count, exited
\* with a failure, fitted nothing and written neither artifact; one with 10 or more has fitted
\* a model and written both artifacts.
C4_ThresholdDecidesPersist ==
    (prog = "train" /\ pc = "exited" /\ dataExists) =>
        IF Len(texts) < MinTrain
        THEN /\ stdout = <<Msg("not_enough_training_data", Len(texts))>>
             /\ exitCode = 1
             /\ pipeline = NoPipeline
             /\ ~modelFile.exists /\ ~categoriesFile.exists
        ELSE /\ pipeline # NoPipeline
             /\ modelFile.exists /\ categoriesFile.exists

\* C5: without a model artifact the Predictor does nothing but print the model-not-found
\* error and exit with status 1: it loads no artifact, reads no batch, asks the classifier
\* nothing and prints no results.
C5_MissingModelFailsFast ==
    (prog = "predict" /\ ~modelFile.exists) =>
        /\ pc \in {"start", "exited"}
        /\ category_map = NoMap /\ pipeline = NoPipeline
        /\ loads = [model |-> 0, categories |-> 0]
        /\ pos = 0 /\ transactions = <<>> /\ results = NoResults /\ calls = <<>>
        /\ pc = "exited" =>
             stdout = <<Msg("error_model_not_found", 0)>> /\ exitCode = 1

\* C5 witness: the Predictor has exited on a missing model with a non-empty batch waiting
C5_Witness ==
    prog = "predict" /\ ~modelFile.exists /\ pc = "exited" /\ stdin # <<>>

\* C6: the text the single-prediction path hands to the classifier is the FeatureEncoder's
\* text for a transaction with the same payee, notes and amount.
C6_SingleMatchesEncoder ==
    (prog = "api" /\ lastCall # NoCall) =>
        calls[Len(calls)] =
            train_features(Tx(lastCall.payee, <<>>, lastCall.notes, lastCall.amount, "", <<>>))

\* C7: once the batch is read, the result list holds one record for each transaction handled
\* so far, in input order, each with the index of its transaction (0 when it has none); at
\* exit that is one record for every transaction of the request.
C7_OneRecordPerInputInOrder ==
    (prog = "predict" /\ pc \in {"loop", "exited"} /\ modelFile.exists) =>
        /\ transactions = stdin
        /\ Len(results) = pos - 1
        /\ pos <= Len(stdin) + 1
        /\ pc = "exited" => Len(results) = Len(stdin)
        /\ \A k \in 1..Len(results) :
             results[k].index = IF stdin[k].index = <<>> THEN 0 ELSE stdin[k].index[1]

\* C7 witness: a finished batch of two transactions with different indices
C7_Witness ==
    /\ prog = "predict" /\ pc = "exited" /\ exitCode = 0
    /\ Len(stdin) = 2 /\ Len(results) = 2
    /\ results[1].index # results[2].index

\* the usable transactions of the corpus in corpus order: categorized, of a category the
\* category table has, with a non-empty encoded text
UsableTxs ==
    LET usable(tx) == /\ tx.category \in {Categories[j].id : j \in 1..Len(Categories)}
                      /\ prepare_features(tx) # <<>>
    IN SelectSeq(corpus, usable)

\* C8: once the Evaluator has split the corpus, subset A followed alternately by subset B is
\* the sequence of usable transactions (each in exactly one subset, at its parity), and the
\* sizes of A and B differ by at most one.
C8_PartitionOfUsable ==
    (prog = "evaluate" /\ pc \in {"cycle", "printed"}) =>
        /\ Interleave(even_txs, odd_txs) = UsableTxs
        /\ Len(even_txs) - Len(odd_txs) \in {0, 1}

\* C9 as claimed: a Predictor process, batch or single-prediction, loads each artifact at most
\* once, and has loaded both before the classifier is asked anything.
C9_LoadedOncePerProcess ==
    (prog \in {"predict", "api"}) =>
        /\ loads.model <= 1 /\ loads.categories <= 1
        /\ calls # <<>> => loads = [model |-> 1, categories |-> 1]

\* C9 as amended: the batch Predictor loads each artifact exactly once, before it reads the
\* batch, and from then on holds exactly what the files hold; a process calling predict()
\* has loaded each artifact once per call.
C9_BatchLoadsOnce ==
    /\ (prog = "predict" /\ modelFile.exists) =>
          /\ loads.model <= 1 /\ loads.categories <= 1
          /\ pc \in {"read", "loop", "exited"} =>
                /\ loads = [model |-> 1, categories |-> 1]
                /\ pipeline = load(modelFile)
                /\ category_map = load(categoriesFile)
          /\ pc \in {"start", "load"} => calls = <<>> /\ results = NoResults
    /\ (prog = "api" /\ modelFile.exists) =>
          loads = [model |-> ncalls, categories |-> ncalls]

\* C9 witness: a finished batch in which the classifier was asked twice after one load
C9_Witness ==
    /\ prog = "predict" /\ pc = "exited" /\ exitCode = 0
    /\ Len(calls) = 2
    /\ loads = [model |-> 1, categories |-> 1]

\* the test subset of the cycle just run
TestTxs == IF cycle = 1 THEN odd_txs ELSE even_txs

\* what the fitted classifier answered for test example k
Answered(k) == memo[calls[k]]

IsMisclassified(k) == TestTxs[k].category # Answered(k).label

\* the positions of the misclassified test examples, ascending
MisclassifiedAt == SelectSeq([k \in 1..Len(TestTxs) |-> k], IsMisclassified)

\* the failure record of test example k, its notes truncated at the marker or as given
FailureOf(k, truncated) ==
    LET tx == TestTxs[k]
    IN [payee |-> IF tx.payee_name # <<>> THEN tx.payee_name
                  ELSE IF tx.imported_payee # <<>> THEN tx.imported_payee ELSE S_Unknown,
        notes |-> IF truncated THEN clean_notes(tx.notes) ELSE tx.notes,
        amount |-> tx.amount,
        expected |-> tx.category,
        predicted |-> Answered(k).label,
        confidence |-> Answered(k).confidence]

\* the failure records of all misclassified test examples, in test order
FailuresOf(truncated) ==
    [j \in 1..Len(MisclassifiedAt) |-> FailureOf(MisclassifiedAt[j], truncated)]

CountIn(s, r) == Cardinality({k \in 1..Len(s) : s[k] = r})

SameBag(a, b) ==
    /\ Len(a) = Len(b)
    /\ \A r \in Range(a) \cup Range(b) : CountIn(a, r) = CountIn(b, r)

SortedByConfidenceDescending(s) ==
    \A k \in 1..(Len(s) - 1) : s[k].confidence >= s[k + 1].confidence

\* C10 as claimed, of a list: it holds exactly the misclassified test examples, each with its
\* notes truncated at the marker, ordered by confidence descending
IsClaimedFailureList(s) ==
    SameBag(s, FailuresOf(TRUE)) /\ SortedByConfidenceDescending(s)

\* C10 as claimed: after a cycle, the failure list (the one evaluate_split returns, or the one
\* print_results shows) is the claimed list.
C10_FailuresTruncatedAndSorted ==
    EvaluatorRanCycle =>
        IsClaimedFailureList(results.failures) \/ IsClaimedFailureList(shown)

\* C10 as amended: after a cycle, evaluate_split's failures are exactly the misclassified test
\* examples in test order, each with its payee ('Unknown' when it has none), its notes as
\* given, amount, expected and predicted category and confidence; what print_results shows is
\* ordered by confidence descending and holds the 15 most confident of them, or all when
\* there are fewer.
C10_FailuresInTestOrderShownSorted ==
    EvaluatorRanCycle =>
        /\ results.failures = FailuresOf(FALSE)
        /\ Len(shown) = Min(MaxShown, Len(results.failures))
        /\ SortedByConfidenceDescending(shown)
        /\ \A r \in Range(shown) \cup Range(results.failures) :
             /\ CountIn(shown, r) <= CountIn(results.failures, r)
             /\ CountIn(shown, r) < CountIn(results.failures, r) =>
                    \A j \in 1..Len(shown) : shown[j].confidence >= r.confidence

\* C10 witness: a cycle with more failures than are shown, not in confidence order, one of
\* them with annotated notes
C10_Witness ==
    /\ EvaluatorRanCycle
    /\ Len(results.failures) > MaxShown
    /\ ~SortedByConfidenceDescending(results.failures)
    /\ \E k \in 1..Len(results.failures) : contains(results.failures[k].notes, Marker)

\* where the marker '[AI:' starts in notes
MarkerStarts(notes) ==
    {n \in 1..(Len(notes) - 3) :
       notes[n] = "[" /\ notes[n + 1] = "A" /\ notes[n + 2] = "I" /\ notes[n + 3] = ":"}

HasMarker(tx) == MarkerStarts(tx.notes) # {}

\* the notes before the first marker
BeforeFirstMarker(notes) ==
    LET first == CHOOSE n \in MarkerStarts(notes) : \A j \in MarkerStarts(notes) : n <= j
    IN SubSeq(notes, 1, first - 1)

\* the text of a transaction whose notes are only what precedes the first marker, stripped
TextBeforeMarker(tx) ==
    LET payee == IF tx.payee_name # <<>> THEN tx.payee_name ELSE tx.imported_payee
    IN lower(strip(payee \o <<" ">> \o strip(BeforeFirstMarker(tx.notes)) \o <<" ">>
                   \o (IF tx.amount < 0 THEN S_expense ELSE S_income)))

\* the transactions the Trainer encodes into texts, in corpus order
TrainerEncodedTxs ==
    LET kept(tx) == tx.category \in {Categories[j].id : j \in 1..Len(Categories)}
    IN SelectSeq(corpus, kept)

\* the (transaction, text) pairs the running process has encoded so far: the Trainer's training
\* texts, the Evaluator's fitted and scored texts of the current cycle, the batch Predictor's
\* texts handed to the classifier
EncodedSoFar ==
    CASE prog = "train" /\ pc \notin {"start", "load"} /\ dataExists ->
             {<<TrainerEncodedTxs[k], texts[k]>> : k \in 1..Len(texts)}
      [] prog = "evaluate" /\ pc = "printed" ->
             {<<(IF cycle = 1 THEN even_txs ELSE odd_txs)[k], fitted[k].text>> :
                 k \in 1..Len(fitted)}
             \cup {<<TestTxs[k], calls[k]>> : k \in 1..Len(calls)}
      [] prog = "predict" /\ pc \in {"loop", "exited"} /\ modelFile.exists ->
             {<<transactions[k], calls[k]>> : k \in 1..Len(calls)}
      [] OTHER -> {}

\* C11: every text the Trainer, the Evaluator or the batch Predictor has encoded from a
\* transaction whose notes hold the marker '[AI:' is the text of payee, the notes before the
\* first marker stripped of whitespace, and the income/expense token; it holds neither the
\* marker (as written or lowercased) nor anything of the notes from the marker on.
C11_NothingFromMarkerOn ==
    \A e \in EncodedSoFar :
        HasMarker(e[1]) =>
            /\ e[2] = TextBeforeMarker(e[1])
            /\ ~contains(e[2], Marker)
            /\ ~contains(e[2], lower(Marker))

\* C11 witness: the batch Predictor has encoded a transaction whose notes hold two markers, and
\* one whose notes start with the marker
C11_Witness ==
    /\ prog = "predict" /\ pc = "exited" /\ exitCode = 0
    /\ \E e \in EncodedSoFar : Cardinality(MarkerStarts(e[1].notes)) = 2
    /\ \E e \in EncodedSoFar : 1 \in MarkerStarts(e[1].notes)

====
